---- MODULE Spec2Model ----
(***************************************************************************)
(* Model of the Forum Email API (src/main.py): the "emails" table, its     *)
(* auto-increment id sequence and unique email_name column, and the        *)
(* request handlers get_email, create_email, update_email, delete_email    *)
(* and test_connection, each run inside a get_db session.  A handler is    *)
(* split at its database round trips (query, commit, refresh), so that     *)
(* concurrent requests interleave where the code's statements can.  The    *)
(* arrival of a request (session opened, body validated) is one step with  *)
(* the handler's first query: nothing before that query reads or writes    *)
(* the table.  A commit is one step: the store applies it atomically.      *)
(***************************************************************************)
EXTENDS Integers, FiniteSets, TLC

\* Largest id the sequence of the emails table hands out in the model.
MaxId == 3

\* Status codes the handlers answer with.
HTTP_200_OK == 200
HTTP_201_CREATED == 201
HTTP_204_NO_CONTENT == 204
HTTP_404_NOT_FOUND == 404
HTTP_409_CONFLICT == 409
HTTP_422_UNPROCESSABLE == 422
HTTP_500_INTERNAL == 500
HTTP_503_SERVICE_UNAVAILABLE == 503

\* The requests in flight at once. Two are what a race of the handlers
\* takes: one request's check, another request's commit, the first's commit.
Reqs == {1, 2}
\* email_id path parameters the clients send.
Ids == 1..MaxId
\* Strings that pass EmailStr validation.
ValidEmails == {"a@x.com", "b@x.com"}
\* Request bodies the clients send: the valid ones and a malformed one.
Candidates == ValidEmails \cup {"not-an-email"}
Ops == {"get", "create", "update", "delete", "test"}

\* No row loaded / no response body.
None == "None"
NoBody == [id |-> 0, email_name |-> None]

VARIABLES
    store,      \* the emails table: id -> email_name of the committed rows
    seq,        \* last value the id sequence of the table handed out
    pc,         \* per request: "idle", a handler position, or "done"
    op,         \* per request: the endpoint it calls
    email_id,   \* per request: the email_id path parameter (0 when none)
    email,      \* per request: the body's email_name (None when none)
    row,        \* per request: email_name of the loaded db_email (None when none)
    status,     \* per request: status code of the response (0 before it)
    result,     \* per request: body of the response
    session,    \* per request: "none", "open" or "closed"
    last        \* the request that finished most recently (0 at the start)

vars == <<store, seq, pc, op, email_id, email, row, status, result, session, last>>

Rows == DOMAIN store
Names == {store[i] : i \in Rows}

\* EmailBase.email_name: EmailStr
IsEmailStr(s) == s \in ValidEmails

\* Column id: autoincrement. The next value of the table's sequence, which
\* an INSERT takes whether or not it succeeds.
NextIdReusing == IF Rows = {} THEN 1 ELSE (CHOOSE i \in Rows : \A j \in Rows : j <= i) + 1
NextId == seq + 1

\* Column email_name: unique=True. Whether the store rejects giving name e
\* to the row with id i, another row having it.
NoUniqueConstraint(e, i) == FALSE
UniqueViolation(e, i) == \E j \in Rows : j # i /\ store[j] = e

\* get_db: the session is closed in the finally clause, whatever the
\* handler's outcome was.
CloseOnSuccessOnly(code) == IF code < 400 THEN "closed" ELSE "open"
get_db_finally(code) == "closed"

\* db.query(EmailModel).filter(EmailModel.email_name == e).first()
NoExistingCheck(e) == FALSE
AnyRowExists(e) == Rows # {}
ExistingByName(e) == e \in Names

\* db.query(EmailModel).filter(EmailModel.email_name == e,
\*                             EmailModel.id != i).first()
OtherIncludingSelf(e, i) == e \in Names
NoOtherCheck(e, i) == FALSE
OtherByName(e, i) == \E j \in Rows : j # i /\ store[j] = e

\* db.delete(db_email); db.commit(): the table without the row i.
DeleteNothing(i) == store
DeleteRow(i) == [j \in Rows \ {i} |-> store[j]]

\* db_email.email_name = e; db.commit(): the table with row i renamed.
UpdateRow(i, e) == [store EXCEPT ![i] = e]

\* db.add(db_email); db.commit(): the table with the new row.
InsertRow(i, e) == [j \in Rows \cup {i} |-> IF j = i THEN e ELSE store[j]]

Init ==
    /\ store = [i \in {} |-> None]
    /\ seq = 0
    /\ pc = [r \in Reqs |-> "idle"]
    /\ op = [r \in Reqs |-> None]
    /\ email_id = [r \in Reqs |-> 0]
    /\ email = [r \in Reqs |-> None]
    /\ row = [r \in Reqs |-> None]
    /\ status = [r \in Reqs |-> 0]
    /\ result = [r \in Reqs |-> NoBody]
    /\ session = [r \in Reqs |-> "none"]
    /\ last = 0

\* A request arrives: the endpoint and its inputs are fixed, and get_db
\* opens the session (SessionLocal()).
Accept(r, o, i, e) ==
    /\ pc[r] \in {"idle", "done"}
    /\ op' = [op EXCEPT ![r] = o]
    /\ email_id' = [email_id EXCEPT ![r] = i]
    /\ email' = [email EXCEPT ![r] = e]

\* The handler goes on to its next database round trip, session open.
Goto(r, label, loaded) ==
    /\ pc' = [pc EXCEPT ![r] = label]
    /\ row' = [row EXCEPT ![r] = loaded]
    /\ status' = [status EXCEPT ![r] = 0]
    /\ result' = [result EXCEPT ![r] = NoBody]
    /\ session' = [session EXCEPT ![r] = "open"]
    /\ last' = last

\* The request ends with a response (a return, an HTTPException or an
\* uncaught exception), and get_db's finally clause runs.
Respond(r, code, body) ==
    /\ pc' = [pc EXCEPT ![r] = "done"]
    /\ row' = [row EXCEPT ![r] = None]
    /\ status' = [status EXCEPT ![r] = code]
    /\ result' = [result EXCEPT ![r] = body]
    /\ session' = [session EXCEPT ![r] = get_db_finally(code)]
    /\ last' = r

\* GET /test-connect: db.execute("SELECT 1") succeeds or raises.
test_connection(r) ==
    /\ Accept(r, "test", 0, None)
    /\ \E reachable \in BOOLEAN :
          Respond(r, IF reachable THEN HTTP_200_OK ELSE HTTP_503_SERVICE_UNAVAILABLE, NoBody)
    /\ UNCHANGED <<store, seq>>

\* GET /emails/{email_id}
get_email(r) ==
    /\ \E i \in Ids :
          /\ Accept(r, "get", i, None)
          /\ IF i \in Rows
                THEN Respond(r, HTTP_200_OK, [id |-> i, email_name |-> store[i]])
                ELSE Respond(r, HTTP_404_NOT_FOUND, NoBody)
    /\ UNCHANGED <<store, seq>>

\* POST /emails, to the existence check: body validation, then the query
\* for a row with the same email_name.
create_email_check(r) ==
    /\ seq + Cardinality({q \in Reqs : pc[q] = "insert"}) < MaxId
    /\ \E e \in Candidates :
          /\ Accept(r, "create", 0, e)
          /\ IF ~IsEmailStr(e)
                THEN Respond(r, HTTP_422_UNPROCESSABLE, NoBody)
                ELSE IF ExistingByName(e)
                        THEN Respond(r, HTTP_409_CONFLICT, NoBody)
                        ELSE Goto(r, "insert", None)
    /\ UNCHANGED <<store, seq>>

\* POST /emails: db.add(db_email); db.commit(). The INSERT takes the next
\* id of the sequence; the unique index rejects a name a row already has,
\* and the IntegrityError is not caught.
create_email_commit(r) ==
    /\ pc[r] = "insert"
    /\ seq' = NextId
    /\ IF UniqueViolation(email[r], 0)
          THEN /\ store' = store
               /\ email_id' = email_id
               /\ Respond(r, HTTP_500_INTERNAL, NoBody)
          ELSE /\ store' = InsertRow(NextId, email[r])
               /\ email_id' = [email_id EXCEPT ![r] = NextId]
               /\ Goto(r, "refresh", None)
    /\ UNCHANGED <<op, email>>

\* POST /emails: db.refresh(db_email); return db_email. The row is read
\* back by its id; the refresh raises when the row is gone.
create_email_refresh(r) ==
    /\ pc[r] = "refresh"
    /\ IF email_id[r] \in Rows
          THEN Respond(r, HTTP_201_CREATED,
                       [id |-> email_id[r], email_name |-> store[email_id[r]]])
          ELSE Respond(r, HTTP_500_INTERNAL, NoBody)
    /\ UNCHANGED <<store, seq, op, email_id, email>>

\* PUT /emails/{email_id}, to the lookup of the target row.
update_email_find(r) ==
    /\ \E i \in Ids, e \in Candidates :
          /\ Accept(r, "update", i, e)
          /\ IF ~IsEmailStr(e)
                THEN Respond(r, HTTP_422_UNPROCESSABLE, NoBody)
                ELSE IF i \notin Rows
                        THEN Respond(r, HTTP_404_NOT_FOUND, NoBody)
                        ELSE Goto(r, "check", store[i])
    /\ UNCHANGED <<store, seq>>

\* PUT /emails/{email_id}: the query for another row with the new name.
update_email_check(r) ==
    /\ pc[r] = "check"
    /\ IF OtherByName(email[r], email_id[r])
          THEN Respond(r, HTTP_409_CONFLICT, NoBody)
          ELSE Goto(r, "commit", row[r])
    /\ UNCHANGED <<store, seq, op, email_id, email>>

\* PUT /emails/{email_id}: db_email.email_name = ...; db.commit(). An
\* attribute set to the value it was loaded with flushes no UPDATE; an
\* UPDATE that matches no row, or that the unique index rejects, raises,
\* and the exception is not caught.
update_email_commit(r) ==
    /\ pc[r] = "commit"
    /\ IF email[r] = row[r]
          THEN /\ store' = store
               /\ Respond(r, HTTP_204_NO_CONTENT, NoBody)
          ELSE IF email_id[r] \notin Rows \/ UniqueViolation(email[r], email_id[r])
                  THEN /\ store' = store
                       /\ Respond(r, HTTP_500_INTERNAL, NoBody)
                  ELSE /\ store' = UpdateRow(email_id[r], email[r])
                       /\ Respond(r, HTTP_204_NO_CONTENT, NoBody)
    /\ UNCHANGED <<seq, op, email_id, email>>

\* DELETE /emails/{email_id}, to the lookup of the target row.
delete_email_find(r) ==
    /\ \E i \in Ids :
          /\ Accept(r, "delete", i, None)
          /\ IF i \notin Rows
                THEN Respond(r, HTTP_404_NOT_FOUND, NoBody)
                ELSE Goto(r, "delete", store[i])
    /\ UNCHANGED <<store, seq>>

\* DELETE /emails/{email_id}: db.delete(db_email); db.commit(). A DELETE
\* that matches no row only warns.
delete_email_commit(r) ==
    /\ pc[r] = "delete"
    /\ store' = DeleteRow(email_id[r])
    /\ Respond(r, HTTP_204_NO_CONTENT, NoBody)
    /\ UNCHANGED <<seq, op, email_id, email>>

Step(r) ==
    \/ test_connection(r)
    \/ get_email(r)
    \/ create_email_check(r)
    \/ create_email_commit(r)
    \/ create_email_refresh(r)
    \/ update_email_find(r)
    \/ update_email_check(r)
    \/ update_email_commit(r)
    \/ delete_email_find(r)
    \/ delete_email_commit(r)

\* Requests are dispatched concurrently: any request may take its next step.
Next == \E r \in Reqs : Step(r)

Spec == Init /\ [][Next]_vars

\* One client that waits for each response before its next request.
Alone(r) == \A q \in Reqs \ {r} : pc[q] \in {"idle", "done"}
SeqNext ==
    \E r \in Reqs :
        \/ Alone(r) /\ test_connection(r)
        \/ Alone(r) /\ get_email(r)
        \/ Alone(r) /\ create_email_check(r)
        \/ Alone(r) /\ create_email_commit(r)
        \/ Alone(r) /\ create_email_refresh(r)
        \/ Alone(r) /\ update_email_find(r)
        \/ Alone(r) /\ update_email_check(r)
        \/ Alone(r) /\ update_email_commit(r)
        \/ Alone(r) /\ delete_email_find(r)
        \/ Alone(r) /\ delete_email_commit(r)

SeqSpec == Init /\ [][SeqNext]_vars

(***************************************************************************)
(* Properties                                                              *)
(***************************************************************************)

\* What a request's slot holds; a step changes the slot of one request.
Slot(r) == <<pc[r], op[r], email_id[r], email[r], row[r], status[r], result[r], session[r]>>
Moved(r) == Slot(r)' # Slot(r)
\* Request r arrives in this step, calling endpoint o.
Arrives(r, o) == pc[r] \in {"idle", "done"} /\ Moved(r) /\ op'[r] = o
\* Request r takes the step of its handler that starts at position p.
Takes(r, p) == pc[r] = p /\ Moved(r)
\* Request r has ended, calling endpoint o, with status code c.
Ended(r, o, c) == pc[r] = "done" /\ op[r] = o /\ status[r] = c
\* Row i and its email_name are the same before and after the step.
Kept(i) == i \in Rows /\ i \in Rows' /\ store'[i] = store[i]

\* C1: no two rows of the emails table have the same email_name, in every
\* state any interleaving of the requests reaches.
C1_UniqueEmailNames ==
    \A i \in Rows, j \in Rows : i # j => store[i] # store[j]

\* C1 witness: the table holds two rows and the unique index has rejected
\* the insert of a concurrent create.
C1_Witness ==
    /\ Cardinality(Rows) = 2
    /\ \E r \in Reqs : Ended(r, "create", HTTP_500_INTERNAL) /\ email_id[r] = 0

\* C2: of two concurrent creates of the same email_name, which no row had
\* when they checked, one succeeds and the other, whose insert the unique
\* index rejects, ends with 409.
C2_ConcurrentCreatesConflict ==
    [][\A r \in Reqs, q \in Reqs :
          (/\ r # q
           /\ op[q] = "create" /\ pc[q] = "refresh"
           /\ op[r] = "create" /\ email[r] = email[q]
           /\ Takes(r, "insert"))
          => (pc'[r] = "done" /\ status'[r] = HTTP_409_CONFLICT)]_vars

\* C3: no request ends with an untranslated store exception: every response
\* is a success or one of 404, 409, 422 and 503.
C3_StoreFailuresTranslated ==
    \A r \in Reqs :
        pc[r] = "done" =>
            status[r] \in {HTTP_200_OK, HTTP_201_CREATED, HTTP_204_NO_CONTENT,
                           HTTP_404_NOT_FOUND, HTTP_409_CONFLICT,
                           HTTP_422_UNPROCESSABLE, HTTP_503_SERVICE_UNAVAILABLE}

\* C4: a create of an email_name that a row already has ends at once with
\* 409 and writes nothing: the table and its id sequence are unchanged.
C4_DuplicateCreateConflict ==
    [][\A r \in Reqs :
          (Arrives(r, "create") /\ email'[r] \in Names)
          => (/\ pc'[r] = "done"
              /\ status'[r] = HTTP_409_CONFLICT
              /\ store' = store
              /\ seq' = seq)]_vars

\* C4 witness: the second of two creates of the same email_name in sequence
\* has ended with 409, the first having ended with 201.
C4_Witness ==
    \E r \in Reqs, q \in Reqs :
        /\ r # q /\ last = r
        /\ Ended(q, "create", HTTP_201_CREATED)
        /\ Ended(r, "create", HTTP_409_CONFLICT)
        /\ email[r] = email[q]
        /\ Cardinality(Rows) = 1

C6_UpdateConflict ==
    [][\A r \in Reqs :
          /\ (/\ Arrives(r, "update") /\ IsEmailStr(email'[r])
              /\ email_id'[r] \in Rows
              /\ \E j \in Rows \ {email_id'[r]} : store[j] = email'[r])
             => (pc'[r] = "check" /\ store' = store)
          /\ (/\ Takes(r, "check")
              /\ \E j \in Rows \ {email_id[r]} : store[j] = email[r])
             => (/\ pc'[r] = "done"
                 /\ status'[r] = HTTP_409_CONFLICT
                 /\ store' = store)]_vars

\* C6 witness: an update has ended with 409, its target and the holder of
\* the email_name both in the table.
C6_Witness ==
    \E r \in Reqs :
        /\ last = r
        /\ Ended(r, "update", HTTP_409_CONFLICT)
        /\ email_id[r] \in Rows
        /\ store[email_id[r]] # email[r]
        /\ \E j \in Rows \ {email_id[r]} : store[j] = email[r]

\* C7: the ids of the rows never exceed the sequence, a step brings a new
\* id into the table only as the insert of a create, and that id is larger
\* than every id the sequence handed out before, the ids of deleted rows
\* included; a row that stays keeps its id.
C7_IdsNeverReused ==
    [][/\ Rows \subseteq 1..seq
       /\ \A i \in Rows' \ Rows :
             /\ i > seq
             /\ \A j \in Rows : j < i
             /\ \E r \in Reqs : Takes(r, "insert") /\ email_id'[r] = i
       /\ \A r \in Reqs :
             (Takes(r, "commit") \/ Takes(r, "check") \/ Arrives(r, "update"))
             => Rows' = Rows
       /\ seq' >= seq]_vars

\* C7 witness: a row was deleted and a create that ended after it was
\* given a larger id.
C7_Witness ==
    \E r \in Reqs, q \in Reqs :
        /\ last = r
        /\ Ended(q, "delete", HTTP_204_NO_CONTENT)
        /\ email_id[q] \notin Rows
        /\ Ended(r, "create", HTTP_201_CREATED)
        /\ result[r].id > email_id[q]
        /\ result[r].id \in Rows

\* C8: a request that has ended, however it ended, has no open session.
C8_SessionReleased ==
    \A r \in Reqs : pc[r] \in {"idle", "done"} => session[r] # "open"

\* C8 witness: requests have ended with an uncaught exception and with a
\* handled error, their sessions closed.
C8_Witness ==
    \E r \in Reqs, q \in Reqs :
        /\ Ended(r, "update", HTTP_500_INTERNAL) /\ session[r] = "closed"
        /\ Ended(q, "delete", HTTP_204_NO_CONTENT) /\ session[q] = "closed"

\* C9: with one request at a time, a delete of an existing id goes to its
\* commit, which removes that row and no other and ends with 204, and a
\* get of that id right after ends with 404; a delete of an absent id ends
\* with 404, the table unchanged.
C9_DeleteThenGet ==
    [][\A r \in Reqs :
          /\ (Arrives(r, "delete") /\ email_id'[r] \in Rows)
             => (pc'[r] = "delete" /\ store' = store)
          /\ Takes(r, "delete")
             => (/\ pc'[r] = "done"
                 /\ status'[r] = HTTP_204_NO_CONTENT
                 /\ email_id[r] \in Rows
                 /\ Rows' = Rows \ {email_id[r]}
                 /\ \A i \in Rows' : Kept(i))
          /\ \A q \in Reqs :
                (/\ last = q /\ Ended(q, "delete", HTTP_204_NO_CONTENT)
                 /\ Arrives(r, "get") /\ email_id'[r] = email_id[q])
                => (pc'[r] = "done" /\ status'[r] = HTTP_404_NOT_FOUND)
          /\ (Arrives(r, "delete") /\ email_id'[r] \notin Rows)
             => (/\ pc'[r] = "done"
                 /\ status'[r] = HTTP_404_NOT_FOUND
                 /\ store' = store)]_vars

\* C9 witness: a get has ended with 404 for the id of a delete that ended
\* with 204, another row still in the table.
C9_Witness ==
    \E r \in Reqs, q \in Reqs :
        /\ r # q /\ last = r
        /\ Ended(q, "delete", HTTP_204_NO_CONTENT)
        /\ Ended(r, "get", HTTP_404_NOT_FOUND)
        /\ email_id[r] = email_id[q]
        /\ email_id[q] <= seq
        /\ Rows # {}

====
